---- MODULE Spec2Model ----
(***************************************************************************)
(* Clearance Connect: the order / stock-reservation workflow.              *)
(*                                                                         *)
(* The state is the two MongoDB collections the workflow writes (products  *)
(* and orders) and the requests in flight.  Every request handler is an    *)
(* async function: it runs without interruption between two awaits, and    *)
(* every await on the database is a point where other requests run.  One   *)
(* action of the model is one such uninterrupted piece of a handler, ending*)
(* in the database call it awaits.                                         *)
(*                                                                         *)
(* A Mongoose document is a private copy of the stored document.  save()   *)
(* on a new document inserts it; save() on a loaded document validates the *)
(* paths that were modified and sends an update of exactly those paths     *)
(* ($set of a changed path, $push of a pushed array element), so two       *)
(* requests that loaded the same document overwrite each other's paths.    *)
(***************************************************************************)
EXTENDS Integers, Sequences, FiniteSets, TLC

\* ------------------------------------------------------------------ bounds
MaxStock == 2        \* stock quantities a seller enters: 0..MaxStock
MaxQty == 2          \* quantity of one order line: 1..MaxQty
MaxItems == 2        \* lines of one CreateOrder request: 1..MaxItems
MaxOrders == 2       \* orders ever inserted
MaxRequests == 3     \* requests ever started
MaxRacing == 2       \* requests ever started when requests may overlap
MaxCartStock == 11   \* stock of the product a cart run starts on: 0..MaxCartStock
MaxAsk == 11         \* quantity a cart request asks for: 0..MaxAsk
MaxCartRequests == 2 \* cart requests ever started
MaxCartObjects == 3  \* cart objects ever created
MaxShopping == 2     \* requests ever started by a customer who shops and orders

Products == {"p1", "p2"}
Customers == {"c1", "c2"}
Sellers == {"s1", "s2"}
Admins == {"a1"}
Users == Customers \cup Sellers \cup Admins
Slots == {1, 2}
Reasons == {"changed mind"}
TrackingNumbers == {"none", "TRK123"}
Prices == {250}
Shoppers == {"c1"}

\* ------------------------------------------------------- program constants
FreeShippingThreshold == 500
FlatShippingFee == 50
GstPercent == 18
AddMaxQuantity == 10      \* POST /api/cart/add: quantity isInt({ min: 1, max: 10 })
LineLimit == 10           \* POST /api/cart/add: newQuantity > 10
UpdateMaxQuantity == 10   \* PUT /api/cart/update: quantity isInt({ min: 0, max: 10 })
CartFreeShippingThreshold == 500   \* GET /api/cart: subtotal >= 500 ? 0 : 50
CartFlatShippingFee == 50
CartGstPercent == 18               \* GET /api/cart: Math.round(subtotal * 0.18)

ProductStatuses ==
    {"active", "inactive", "out_of_stock", "discontinued", "pending_approval"}

OrderStatuses ==
    {"pending", "confirmed", "processing", "shipped", "out_for_delivery",
     "delivered", "cancelled", "returned", "refunded"}

\* the values express-validator lets through on PUT /api/orders/:id/status
UpdatableStatuses ==
    {"confirmed", "processing", "shipped", "out_for_delivery", "delivered",
     "cancelled"}

CancellableStatuses == {"pending", "confirmed"}

\* req.user.userType, as the auth middleware takes it from the token
UserType(u) ==
    IF u \in Admins THEN "admin" ELSE IF u \in Sellers THEN "seller" ELSE "customer"

VARIABLES
    products,    \* the products collection: product id -> stored document
    orders,      \* the orders collection, in insertion order
    req,         \* slot -> the request it is running
    last,        \* the response sent last: its operation and its result
    nreq,        \* requests started so far
    hist,        \* history: the request started last and the state it found
    cartStorage, \* the cartStorage Map: customer -> its cart object (0: none)
    cartObjects, \* the cart objects ever created: object -> its items array
    data,        \* the data of the response a cart route sent last
    chist        \* history: the cart request started last and what it found

cartVars == <<cartStorage, cartObjects, data, chist>>

vars == <<products, orders, req, last, nreq, hist, cartStorage, cartObjects, data,
          chist>>

\* ------------------------------------------------------------- documents
NoProduct ==
    [exists |-> FALSE, seller |-> "none", quantity |-> 0, reserved |-> 0,
     available |-> 0, status |-> "none", salePrice |-> 0]

Idle == [op |-> "none", pc |-> "done"]

InFlight(r) == req[r].pc # "done"

\* A request is taken by the lowest free slot (slots only name the requests
\* in flight)
CanBegin(r) == /\ ~InFlight(r)
               /\ \A q \in Slots : q < r => InFlight(q)
               /\ nreq < MaxRequests

\* res.status(..).json(..): the request ends, its slot is free again
Respond(r, op, resp) ==
    /\ req' = [req EXCEPT ![r] = Idle]
    /\ last' = [op |-> op, resp |-> resp]

\* The handler goes on to its next await
Continue(r, locals) ==
    /\ req' = [req EXCEPT ![r] = locals]
    /\ UNCHANGED last

\* A pre-save hook that leaves available as the document carries it
ProductPreSaveKeepsAvailable(doc) == doc

\* productSchema.pre('save'): available is recomputed from the document's own
\* quantity and reserved
ProductPreSave(doc) ==
    [doc EXCEPT !.available = doc.quantity - doc.reserved]

\* The validators of the stock paths, run by save() before the pre-save hook
ProductValid(doc) ==
    /\ doc.quantity >= 0
    /\ doc.reserved >= 0

\* save() of a loaded product: the stored document with the paths that differ
\* between the copy as loaded (old) and the copy as saved (new) overwritten
ProductUpdated(stored, old, new) ==
    [stored EXCEPT
        !.quantity = IF new.quantity # old.quantity THEN new.quantity ELSE @,
        !.reserved = IF new.reserved # old.reserved THEN new.reserved ELSE @,
        !.available = IF new.available # old.available THEN new.available ELSE @,
        !.status = IF new.status # old.status THEN new.status ELSE @,
        !.salePrice = IF new.salePrice # old.salePrice THEN new.salePrice ELSE @]

\* Ids are handed out by the database: p1 names the product listed first (by
\* seller s1), p2 the one listed second (by s2); c1 names the customer who
\* orders first
FirstSeller(p) == IF p = "p1" THEN "s1" ELSE "s2"

ListedBefore(p) == IF p = "p1" THEN {} ELSE {"p1"}

OrdersBefore(c) == IF c = "c1" THEN {} ELSE {"c1"}

\* POST /api/products: new Product({..., stock: {quantity, reserved: 0},
\* status: 'active'}) and its first save()
ListedProduct(seller, qty, price) ==
    ProductPreSave(
        [exists |-> TRUE, seller |-> seller, quantity |-> qty, reserved |-> 0,
         available |-> qty, status |-> "active", salePrice |-> price])

\* History: the request started last (operation, caller, arguments), the
\* collections as it found them, the CreateOrder requests it found between
\* their stock check and their save,
\* and whether the request served just before it was a CreateOrder that
\* succeeded (with the catalogue that one had found and its caller)
NoArgs ==
    [o |-> 0, items |-> <<>>, status |-> "none", trackingNumber |-> "none",
     reason |-> "none"]

NoRequest ==
    [op |-> "none", user |-> "none", args |-> NoArgs,
     products0 |-> [p \in Products |-> NoProduct], orders0 |-> <<>>,
     racing |-> {}, afterCreate |-> FALSE, createdBy |-> "none",
     createProducts0 |-> [p \in Products |-> NoProduct]]

\* No cart response yet, or one without validation lists
NoData ==
    [present |-> FALSE, validItems |-> <<>>, errors |-> <<>>,
     canProceedToCheckout |-> FALSE]

\* History of the cart routes: the request started last (operation, caller,
\* product, quantity), the caller's cart items and the catalogue as it found
\* them, and the response of the request served just before it
NoCartRequest ==
    [op |-> "none", user |-> "none", p |-> "none", q |-> 0, items0 |-> <<>>,
     products0 |-> [p \in Products |-> NoProduct],
     prev |-> [op |-> "none", user |-> "none", resp |-> "none", data |-> NoData]]

\* const cartStorage = new Map(); nothing has been sent
NoCarts ==
    /\ cartStorage = [c \in Customers |-> 0]
    /\ cartObjects = <<>>
    /\ data = NoData
    /\ chist = NoCartRequest

\* The server starts on a catalogue that is empty or holds the first product,
\* freshly listed with a full stock; no order exists, no request runs
Init ==
    /\ products \in [Products -> {NoProduct} \cup
                       {ListedProduct(s, MaxStock, price) :
                           s \in Sellers, price \in Prices}]
    /\ \A p \in Products :
          products[p].exists =>
             /\ products[p].seller = FirstSeller(p)
             /\ ListedBefore(p) = {}
    /\ orders = <<>>
    /\ req = [r \in Slots |-> Idle]
    /\ last = [op |-> "none", resp |-> "none"]
    /\ hist = NoRequest
    /\ nreq = 0
    /\ NoCarts

\* ------------------------------------------- POST /api/products (seller)
CreateProduct(r, p, seller, qty, price) ==
    /\ CanBegin(r)
    /\ ~products[p].exists
    /\ seller = FirstSeller(p)
    /\ \A q \in ListedBefore(p) : products[q].exists
    /\ products' = [products EXCEPT ![p] = ListedProduct(seller, qty, price)]
    /\ Respond(r, "CreateProduct", "Created")
    /\ nreq' = nreq + 1
    /\ UNCHANGED orders

\* --------------------------------- PUT /api/products/:id (owning seller)
\* req.body as Object.assign copies it onto the document: the route validates
\* only name, description and the two prices, so stock and status pass through.
\* A body carries a stock object (the new quantity, and reserved either echoed
\* as the product holds it or reset to 0) or a status.
BodyStatuses == {"active", "out_of_stock"}

ProductBodies ==
    [field : {"stock"}, quantity : 0..MaxStock, reserved : {"echo", "zero"},
     status : {"none"}]
    \cup [field : {"status"}, quantity : {0}, reserved : {"echo"},
          status : BodyStatuses]

\* Object.assign(product, req.body)
AssignBody(doc, body) ==
    IF body.field = "stock"
    THEN [doc EXCEPT !.quantity = body.quantity,
                     !.reserved = IF body.reserved = "zero" THEN 0 ELSE @]
    ELSE [doc EXCEPT !.status = body.status]

\* Product.findOne({ _id, seller: req.user.userId })
FindOwnProduct(p, user) ==
    IF products[p].exists /\ products[p].seller = user THEN products[p] ELSE NoProduct

UpdateProductFind(r, p, user, body) ==
    /\ CanBegin(r)
    /\ nreq' = nreq + 1
    /\ LET product == FindOwnProduct(p, user) IN
          IF ~product.exists
          THEN Respond(r, "UpdateProduct", "NotFound")
          ELSE Continue(r, [op |-> "UpdateProduct", pc |-> "save", p |-> p,
                           old |-> product, new |-> AssignBody(product, body)])
    /\ UNCHANGED <<products, orders>>

\* A save that skips the pre-save hook, so that available is not recomputed
SaveProductWithoutHook(p, old, new) ==
    products' = [products EXCEPT ![p] = ProductUpdated(@, old, new)]

\* product.save() of a loaded product: validation, the pre-save hook, the update
SaveProduct(p, old, new) ==
    products' = [products EXCEPT ![p] = ProductUpdated(@, old, ProductPreSave(new))]

UpdateProductSave(r) ==
    /\ req[r].op = "UpdateProduct" /\ req[r].pc = "save"
    /\ IF ProductValid(req[r].new)
       THEN /\ SaveProduct(req[r].p, req[r].old, req[r].new)
            /\ Respond(r, "UpdateProduct", "OK")
       ELSE /\ Respond(r, "UpdateProduct", "ServerError")
            /\ UNCHANGED products
    /\ UNCHANGED <<orders, nreq>>

\* ------------------------------ DELETE /api/products/:id (owning seller)
DeleteProductFind(r, p, user) ==
    /\ CanBegin(r)
    /\ nreq' = nreq + 1
    /\ LET product == FindOwnProduct(p, user) IN
          IF ~product.exists
          THEN Respond(r, "DeleteProduct", "NotFound")
          ELSE Continue(r, [op |-> "DeleteProduct", pc |-> "save", p |-> p,
                           old |-> product, new |-> [product EXCEPT !.status = "inactive"]])
    /\ UNCHANGED <<products, orders>>

DeleteProductSave(r) ==
    /\ req[r].op = "DeleteProduct" /\ req[r].pc = "save"
    /\ IF ProductValid(req[r].new)
       THEN /\ SaveProduct(req[r].p, req[r].old, req[r].new)
            /\ Respond(r, "DeleteProduct", "OK")
       ELSE /\ Respond(r, "DeleteProduct", "ServerError")
            /\ UNCHANGED products
    /\ UNCHANGED <<orders, nreq>>

\* ---------------- GET /api/products/:id: the view counter's analytics save
\* (the counter itself is not part of the state: only what its save() does to
\* the stock paths is)
GetProductFind(r, p) ==
    /\ CanBegin(r)
    /\ nreq' = nreq + 1
    /\ IF ~products[p].exists
       THEN Respond(r, "GetProduct", "NotFound")
       ELSE Continue(r, [op |-> "GetProduct", pc |-> "save", p |-> p,
                         old |-> products[p], new |-> products[p]])
    /\ UNCHANGED <<products, orders>>

\* productSchema.methods.incrementViews
IncrementViews(r) ==
    /\ req[r].op = "GetProduct" /\ req[r].pc = "save"
    /\ IF ProductValid(req[r].new)
       THEN /\ SaveProduct(req[r].p, req[r].old, req[r].new)
            /\ Respond(r, "GetProduct", "OK")
       ELSE /\ Respond(r, "GetProduct", "ServerError")
            /\ UNCHANGED products
    /\ UNCHANGED <<orders, nreq>>

\* =========================================================== orders
NoShipping == [trackingNumber |-> "none", shippedAt |-> FALSE, deliveredAt |-> FALSE]

RECURSIVE SumTotals(_)
\* items.reduce((sum, item) => sum + item.total, 0)
SumTotals(items) ==
    IF items = <<>> THEN 0 ELSE Head(items).total + SumTotals(Tail(items))

\* subtotal >= 500 ? 0 : 50
ShippingCost(subtotal) ==
    IF subtotal >= FreeShippingThreshold THEN 0 ELSE FlatShippingFee

\* Math.round(subtotal * 0.18)
Tax(subtotal) == (subtotal * GstPercent + 50) \div 100

\* The lines a CreateOrder request may carry: items.*.product is any id,
\* items.*.quantity an integer >= 1
ItemLists ==
    UNION {[1..n -> [product : Products, quantity : 1..MaxQty]] : n \in 1..MaxItems}

\* An order whose total leaves the tax out
NewOrderForgetsTax(customer, items) ==
    LET subtotal == SumTotals(items) IN
    [customer |-> customer, items |-> items, subtotal |-> subtotal,
     shippingCost |-> ShippingCost(subtotal), tax |-> Tax(subtotal), discount |-> 0,
     total |-> subtotal + ShippingCost(subtotal),
     status |-> "pending", timeline |-> <<>>, cancellation |-> "none",
     shipping |-> NoShipping]

\* new Order({...}): the schema defaults fill status, timeline, discount, shipping
NewOrder(customer, items) ==
    LET subtotal == SumTotals(items) IN
    [customer |-> customer, items |-> items, subtotal |-> subtotal,
     shippingCost |-> ShippingCost(subtotal), tax |-> Tax(subtotal), discount |-> 0,
     total |-> subtotal + ShippingCost(subtotal) + Tax(subtotal),
     status |-> "pending", timeline |-> <<>>, cancellation |-> "none",
     shipping |-> NoShipping]

\* An addTimelineEntry that sets the status and pushes nothing
AddTimelineEntryStatusOnly(doc, status, updatedBy) == [doc EXCEPT !.status = status]

\* orderSchema.methods.addTimelineEntry, up to its save()
AddTimelineEntry(doc, status, updatedBy) ==
    [doc EXCEPT !.timeline = Append(@, [status |-> status, updatedBy |-> updatedBy]),
                !.status = status]

\* save() of a loaded order: pushed timeline entries are appended to the stored
\* array ($push), every other changed path is overwritten ($set)
OrderUpdated(stored, old, new) ==
    [stored EXCEPT
        !.timeline = @ \o SubSeq(new.timeline, Len(old.timeline) + 1, Len(new.timeline)),
        !.status = IF new.status # old.status THEN new.status ELSE @,
        !.cancellation = IF new.cancellation # old.cancellation
                         THEN new.cancellation ELSE @,
        !.shipping = [trackingNumber |->
                          IF new.shipping.trackingNumber # old.shipping.trackingNumber
                          THEN new.shipping.trackingNumber ELSE @.trackingNumber,
                      shippedAt |->
                          IF new.shipping.shippedAt # old.shipping.shippedAt
                          THEN new.shipping.shippedAt ELSE @.shippedAt,
                      deliveredAt |->
                          IF new.shipping.deliveredAt # old.shipping.deliveredAt
                          THEN new.shipping.deliveredAt ELSE @.deliveredAt]]

SaveOrder(o, old, new) ==
    orders' = [orders EXCEPT ![o] = OrderUpdated(@, old, new)]

\* --------------------------------------------- POST /api/orders (customer)
\* A reservation that takes one unit whatever the line's quantity
ReserveOneUnit(product, quantity) == [product EXCEPT !.reserved = @ + 1]

\* product.stock.reserved += item.quantity
Reserve(product, quantity) == [product EXCEPT !.reserved = @ + quantity]

CreatingOrders == {r \in Slots : req[r].op = "CreateOrder"}

\* A pass of the item loop that does not look at the product's status
CreateOrderItemAnyStatus(r, user, items, i, processed) ==
    LET item == items[i]
        product == products[item.product]
    IN  IF ~product.exists
        THEN Respond(r, "CreateOrder", "ProductNotFound")
        ELSE IF product.available < item.quantity
        THEN Respond(r, "CreateOrder", "InsufficientStock")
        ELSE Continue(r,
               [op |-> "CreateOrder", pc |-> "reserve", user |-> user, items |-> items,
                i |-> i,
                processed |-> Append(processed,
                    [product |-> item.product, seller |-> product.seller,
                     quantity |-> item.quantity, price |-> product.salePrice,
                     total |-> product.salePrice * item.quantity]),
                old |-> product,
                new |-> Reserve(product, item.quantity)])

\* A pass of the item loop that does not look at the available stock
CreateOrderItemUnchecked(r, user, items, i, processed) ==
    LET item == items[i]
        product == products[item.product]
    IN  IF ~product.exists
        THEN Respond(r, "CreateOrder", "ProductNotFound")
        ELSE IF product.status # "active"
        THEN Respond(r, "CreateOrder", "ProductUnavailable")
        ELSE Continue(r,
               [op |-> "CreateOrder", pc |-> "reserve", user |-> user, items |-> items,
                i |-> i,
                processed |-> Append(processed,
                    [product |-> item.product, seller |-> product.seller,
                     quantity |-> item.quantity, price |-> product.salePrice,
                     total |-> product.salePrice * item.quantity]),
                old |-> product,
                new |-> Reserve(product, item.quantity)])

\* One pass of the item loop up to its save(): findById, the three checks, the
\* line pushed on processedItems, reserved increased on the loaded copy
CreateOrderItem(r, user, items, i, processed) ==
    LET item == items[i]
        product == products[item.product]
    IN  IF ~product.exists
        THEN Respond(r, "CreateOrder", "ProductNotFound")
        ELSE IF product.status # "active"
        THEN Respond(r, "CreateOrder", "ProductUnavailable")
        ELSE IF product.available < item.quantity
        THEN Respond(r, "CreateOrder", "InsufficientStock")
        ELSE Continue(r,
               [op |-> "CreateOrder", pc |-> "reserve", user |-> user, items |-> items,
                i |-> i,
                processed |-> Append(processed,
                    [product |-> item.product, seller |-> product.seller,
                     quantity |-> item.quantity, price |-> product.salePrice,
                     total |-> product.salePrice * item.quantity]),
                old |-> product,
                new |-> Reserve(product, item.quantity)])

CreateOrderBegin(r, user, items) ==
    /\ CanBegin(r)
    /\ Len(orders) + Cardinality(CreatingOrders) < MaxOrders
    /\ \A c \in OrdersBefore(user) :
          \/ \E o \in 1..Len(orders) : orders[o].customer = c
          \/ \E q \in CreatingOrders : req[q].user = c
    /\ nreq' = nreq + 1
    /\ CreateOrderItem(r, user, items, 1, <<>>)
    /\ UNCHANGED <<products, orders>>

\* await product.save() of the loop: "Reserve stock"
CreateOrderReserve(r) ==
    /\ req[r].op = "CreateOrder" /\ req[r].pc = "reserve"
    /\ IF ProductValid(req[r].new)
       THEN /\ SaveProduct(req[r].items[req[r].i].product, req[r].old, req[r].new)
            /\ Continue(r, [op |-> "CreateOrder",
                            pc |-> IF req[r].i < Len(req[r].items) THEN "find" ELSE "insert",
                            user |-> req[r].user, items |-> req[r].items,
                            i |-> req[r].i + 1, processed |-> req[r].processed])
       ELSE /\ Respond(r, "CreateOrder", "ServerError")
            /\ UNCHANGED products
    /\ UNCHANGED <<orders, nreq>>

\* await Product.findById of the next pass
CreateOrderFind(r) ==
    /\ req[r].op = "CreateOrder" /\ req[r].pc = "find"
    /\ CreateOrderItem(r, req[r].user, req[r].items, req[r].i, req[r].processed)
    /\ UNCHANGED <<products, orders, nreq>>

\* await order.save(): the order is inserted
CreateOrderInsert(r) ==
    /\ req[r].op = "CreateOrder" /\ req[r].pc = "insert"
    /\ orders' = Append(orders, NewOrder(req[r].user, req[r].processed))
    /\ Continue(r, [op |-> "CreateOrder", pc |-> "timeline", user |-> req[r].user,
                    o |-> Len(orders) + 1,
                    old |-> NewOrder(req[r].user, req[r].processed)])
    /\ UNCHANGED <<products, nreq>>

\* await order.addTimelineEntry('pending', 'Order placed successfully', userId)
CreateOrderTimeline(r) ==
    /\ req[r].op = "CreateOrder" /\ req[r].pc = "timeline"
    /\ SaveOrder(req[r].o, req[r].old,
                 AddTimelineEntry(req[r].old, "pending", req[r].user))
    /\ Respond(r, "CreateOrder", "Created")
    /\ UNCHANGED <<products, nreq>>

\* ------------------------- PUT /api/orders/:id/status (seller or admin)
\* A permission check that also lets the order's customer through
IsSellerOrCustomerOfItem(order, user) ==
    \/ \E k \in 1..Len(order.items) : order.items[k].seller = user
    \/ order.customer = user

\* order.items.some(item => item.seller.toString() === req.user.userId)
IsSellerOfItem(order, user) ==
    \E k \in 1..Len(order.items) : order.items[k].seller = user

\* Stamps that take the tracking number whatever the new status
StampShippingAnyStatus(doc, status, trackingNumber) ==
    LET shipped ==
            IF trackingNumber # "none"
            THEN [doc.shipping EXCEPT !.trackingNumber = trackingNumber,
                                      !.shippedAt = TRUE]
            ELSE doc.shipping
    IN  [doc EXCEPT !.shipping =
            IF status = "delivered" THEN [shipped EXCEPT !.deliveredAt = TRUE]
            ELSE shipped]

\* The shipping stamps set between the two saves
StampShipping(doc, status, trackingNumber) ==
    LET shipped ==
            IF trackingNumber # "none" /\ status = "shipped"
            THEN [doc.shipping EXCEPT !.trackingNumber = trackingNumber,
                                      !.shippedAt = TRUE]
            ELSE doc.shipping
    IN  [doc EXCEPT !.shipping =
            IF status = "delivered" THEN [shipped EXCEPT !.deliveredAt = TRUE]
            ELSE shipped]

UpdateStatusFind(r, o, user, status, trackingNumber) ==
    /\ CanBegin(r)
    /\ nreq' = nreq + 1
    /\ IF o \notin 1..Len(orders)
       THEN Respond(r, "UpdateStatus", "NotFound")
       ELSE IF UserType(user) # "admin" /\ ~IsSellerOfItem(orders[o], user)
       THEN Respond(r, "UpdateStatus", "Forbidden")
       ELSE Continue(r, [op |-> "UpdateStatus", pc |-> "timeline", o |-> o,
                         old |-> orders[o],
                         new |-> AddTimelineEntry(orders[o], status, user),
                         stamped |-> StampShipping(
                                        AddTimelineEntry(orders[o], status, user),
                                        status, trackingNumber)])
    /\ UNCHANGED <<products, orders>>

\* the save() inside addTimelineEntry
UpdateStatusTimeline(r) ==
    /\ req[r].op = "UpdateStatus" /\ req[r].pc = "timeline"
    /\ SaveOrder(req[r].o, req[r].old, req[r].new)
    /\ Continue(r, [op |-> "UpdateStatus", pc |-> "save", o |-> req[r].o,
                    old |-> req[r].new, new |-> req[r].stamped])
    /\ UNCHANGED <<products, nreq>>

\* await order.save()
UpdateStatusSave(r) ==
    /\ req[r].op = "UpdateStatus" /\ req[r].pc = "save"
    /\ SaveOrder(req[r].o, req[r].old, req[r].new)
    /\ Respond(r, "UpdateStatus", "OK")
    /\ UNCHANGED <<products, nreq>>

\* ------------------------------- POST /api/orders/:id/cancel (customer)
\* An ownership check that also lets an admin through
OwnsOrderOrIsAdmin(order, user) ==
    order.customer = user \/ UserType(user) = "admin"

\* order.customer.toString() === req.user.userId
OwnsOrder(order, user) == order.customer = user

CancelFind(r, o, user, reason) ==
    /\ CanBegin(r)
    /\ nreq' = nreq + 1
    /\ IF o \notin 1..Len(orders)
       THEN Respond(r, "Cancel", "NotFound")
       ELSE IF ~OwnsOrder(orders[o], user)
       THEN Respond(r, "Cancel", "Forbidden")
       ELSE IF orders[o].status \notin CancellableStatuses
       THEN Respond(r, "Cancel", "InvalidState")
       ELSE Continue(r, [op |-> "Cancel", pc |-> "timeline", o |-> o,
                         old |-> orders[o],
                         new |-> AddTimelineEntry(
                                    [orders[o] EXCEPT !.cancellation = reason],
                                    "cancelled", user)])
    /\ UNCHANGED <<products, orders>>

\* A release that gives back one unit whatever the line's quantity
ReleaseOneUnit(product, quantity) == [product EXCEPT !.reserved = @ - 1]

\* product.stock.reserved -= item.quantity
Release(product, quantity) == [product EXCEPT !.reserved = @ - quantity]

\* One pass of the release loop up to its save(): findById, and reserved
\* decreased on the loaded copy; a product that is not found is skipped
CancelRelease(r, items, i) ==
    LET product == products[items[i].product] IN
    IF product.exists
    THEN Continue(r, [op |-> "Cancel", pc |-> "release", items |-> items, i |-> i,
                      old |-> product,
                      new |-> Release(product, items[i].quantity)])
    ELSE IF i < Len(items)
    THEN Continue(r, [op |-> "Cancel", pc |-> "find", items |-> items, i |-> i + 1])
    ELSE Respond(r, "Cancel", "OK")

\* the save() inside addTimelineEntry; the handler goes on to the release loop
CancelTimeline(r) ==
    /\ req[r].op = "Cancel" /\ req[r].pc = "timeline"
    /\ SaveOrder(req[r].o, req[r].old, req[r].new)
    /\ Continue(r, [op |-> "Cancel", pc |-> "find", items |-> req[r].new.items,
                    i |-> 1])
    /\ UNCHANGED <<products, nreq>>

\* await Product.findById(item.product) of the release loop
CancelFindProduct(r) ==
    /\ req[r].op = "Cancel" /\ req[r].pc = "find"
    /\ CancelRelease(r, req[r].items, req[r].i)
    /\ UNCHANGED <<products, orders, nreq>>

\* await product.save() of the release loop; a negative reserved fails the
\* schema's min validator, save() throws and the catch block answers 500
CancelSaveProduct(r) ==
    /\ req[r].op = "Cancel" /\ req[r].pc = "release"
    /\ IF ProductValid(req[r].new)
       THEN /\ SaveProduct(req[r].items[req[r].i].product, req[r].old, req[r].new)
            /\ IF req[r].i < Len(req[r].items)
               THEN Continue(r, [op |-> "Cancel", pc |-> "find",
                                 items |-> req[r].items, i |-> req[r].i + 1])
               ELSE Respond(r, "Cancel", "OK")
       ELSE /\ Respond(r, "Cancel", "ServerError")
            /\ UNCHANGED products
    /\ UNCHANGED <<orders, nreq>>

\* ============================================================== cart
\* cartStorage.get(userId), and its items ([] when the customer has no cart)
CartItems(user) ==
    IF cartStorage[user] = 0 THEN <<>> ELSE cartObjects[cartStorage[user]]

\* userCart.items.findIndex(item => item.productId.toString() === productId),
\* counted from 1, 0 when there is none
FindIndex(items, p) ==
    IF \E k \in 1..Len(items) : items[k].productId = p
    THEN CHOOSE k \in 1..Len(items) :
            /\ items[k].productId = p
            /\ \A j \in 1..(k - 1) : items[j].productId # p
    ELSE 0

\* A splice that removes the first item whatever the index
SpliceFirst(items, k) == Tail(items)

\* userCart.items.splice(itemIndex, 1)
Splice(items, k) ==
    SubSeq(items, 1, k - 1) \o SubSeq(items, k + 1, Len(items))

\* A filter that keeps nothing
FilterOutAll(items, p) == <<>>

\* userCart.items.filter(item => item.productId.toString() !== productId)
RECURSIVE FilterOut(_, _)
FilterOut(items, p) ==
    IF items = <<>> THEN <<>>
    ELSE IF Head(items).productId = p THEN FilterOut(Tail(items), p)
    ELSE <<Head(items)>> \o FilterOut(Tail(items), p)

\* A cart route's response
CartRespond(r, op, resp, sent) ==
    /\ Respond(r, op, resp)
    /\ data' = sent

CartContinue(r, locals) ==
    /\ Continue(r, locals)
    /\ UNCHANGED data

\* cartStorage.set(userId, userCart) of a cart the handler got from
\* cartStorage.get(userId) || { items: [] } and has given these items
StoreCart(user, items) ==
    IF cartStorage[user] = 0
    THEN /\ cartObjects' = Append(cartObjects, items)
         /\ cartStorage' = [cartStorage EXCEPT ![user] = Len(cartObjects) + 1]
    ELSE /\ cartObjects' = [cartObjects EXCEPT ![cartStorage[user]] = items]
         /\ UNCHANGED cartStorage

\* ---------------------------------------------------- GET /api/cart
\* A shipping cost that is free only above the threshold
CartShippingCostAboveOnly(subtotal) ==
    IF subtotal > CartFreeShippingThreshold THEN 0 ELSE CartFlatShippingFee

\* subtotal >= 500 ? 0 : 50
CartShippingCost(subtotal) ==
    IF subtotal >= CartFreeShippingThreshold THEN 0 ELSE CartFlatShippingFee

\* Math.round(subtotal * 0.18)
CartTax(subtotal) == (subtotal * CartGstPercent + 50) \div 100

\* The response: the lines and the summary
CartSummary(cartItems, subtotal) ==
    [present |-> TRUE, items |-> cartItems,
     summary |-> [subtotal |-> subtotal, shippingCost |-> CartShippingCost(subtotal),
                  tax |-> CartTax(subtotal),
                  total |-> subtotal + CartShippingCost(subtotal) + CartTax(subtotal)]]

\* From one await Product.findById of the loop over userCart.items to the
\* next, or past the loop to the response
ReadNext(r, userCart, i, cartItems, subtotal) ==
    IF userCart # 0 /\ i <= Len(cartObjects[userCart])
    THEN CartContinue(r, [op |-> "Read", pc |-> "item", userCart |-> userCart, i |-> i,
                          cartItem |-> cartObjects[userCart][i],
                          product |-> products[cartObjects[userCart][i].productId],
                          cartItems |-> cartItems, subtotal |-> subtotal])
    ELSE CartRespond(r, "Read", "OK", CartSummary(cartItems, subtotal))

\* cartStorage.get(userId) || { items: [] }, and the loop entered
ReadBegin(r, user) ==
    /\ CanBegin(r)
    /\ nreq' = nreq + 1
    /\ ReadNext(r, cartStorage[user], 1, <<>>, 0)
    /\ UNCHANGED <<products, orders, cartStorage, cartObjects>>

\* One pass of the loop from the product it awaited: a line of an active
\* product is priced and added to the subtotal, any other is left out
ReadItem(r) ==
    /\ req[r].op = "Read" /\ req[r].pc = "item"
    /\ LET product == req[r].product
           cartItem == req[r].cartItem
           itemTotal == product.salePrice * cartItem.quantity
       IN  IF product.exists /\ product.status = "active"
           THEN ReadNext(r, req[r].userCart, req[r].i + 1,
                         Append(req[r].cartItems,
                                [id |-> cartItem.productId, price |-> product.salePrice,
                                 quantity |-> cartItem.quantity, total |-> itemTotal]),
                         req[r].subtotal + itemTotal)
           ELSE ReadNext(r, req[r].userCart, req[r].i + 1, req[r].cartItems,
                         req[r].subtotal)
    /\ UNCHANGED <<products, orders, nreq, cartStorage, cartObjects>>

\* ------------------------------------------------- POST /api/cart/add
\* The validators, then await Product.findById(productId)
AddFind(r, user, p, q) ==
    /\ CanBegin(r)
    /\ Len(cartObjects) < MaxCartObjects
    /\ nreq' = nreq + 1
    /\ IF q \notin 1..AddMaxQuantity
       THEN CartRespond(r, "Add", "ValidationFailed", NoData)
       ELSE CartContinue(r, [op |-> "Add", pc |-> "cart", user |-> user, p |-> p,
                             q |-> q, product |-> products[p]])
    /\ UNCHANGED <<products, orders, cartStorage, cartObjects>>

\* An Add that overwrites the quantity of an existing line
AddedToReplacing(items, p, q) ==
    LET k == FindIndex(items, p) IN
    IF k > 0 THEN [items EXCEPT ![k].quantity = q]
    ELSE Append(items, [productId |-> p, quantity |-> q])

\* The line an Add leaves in the cart: a new one at the end, or the existing
\* one with the quantity added
AddedTo(items, p, q) ==
    LET k == FindIndex(items, p) IN
    IF k > 0 THEN [items EXCEPT ![k].quantity = @ + q]
    ELSE Append(items, [productId |-> p, quantity |-> q])

\* A check that lets an existing line grow without limit
NeverOverLimit(quantity) == FALSE

\* A check that lets an existing line grow one past the limit
OverLimitOffByOne(quantity) == quantity > LineLimit + 1

\* An existing line may not grow beyond the limit
OverLimit(quantity) == quantity > LineLimit

\* From the product to await product.incrementCartAdds(): the product checks,
\* the cart looked up, the line checks, the cart changed and stored
AddToCart(r) ==
    /\ req[r].op = "Add" /\ req[r].pc = "cart"
    /\ LET product == req[r].product
           q == req[r].q
           items == CartItems(req[r].user)
           k == FindIndex(items, req[r].p)
       IN  IF ~product.exists
           THEN /\ CartRespond(r, "Add", "NotFound", NoData)
                /\ UNCHANGED <<cartStorage, cartObjects>>
           ELSE IF product.status # "active"
           THEN /\ CartRespond(r, "Add", "Unavailable", NoData)
                /\ UNCHANGED <<cartStorage, cartObjects>>
           ELSE IF product.available < q
           THEN /\ CartRespond(r, "Add", "InsufficientStock", NoData)
                /\ UNCHANGED <<cartStorage, cartObjects>>
           ELSE IF k > 0 /\ items[k].quantity + q > product.available
           THEN /\ CartRespond(r, "Add", "InsufficientStock", NoData)
                /\ UNCHANGED <<cartStorage, cartObjects>>
           ELSE IF k > 0 /\ OverLimit(items[k].quantity + q)
           THEN /\ CartRespond(r, "Add", "LimitExceeded", NoData)
                /\ UNCHANGED <<cartStorage, cartObjects>>
           ELSE /\ StoreCart(req[r].user, AddedTo(items, req[r].p, q))
                /\ CartContinue(r, [op |-> "Add", pc |-> "analytics", p |-> req[r].p,
                                    old |-> product, new |-> product])
    /\ UNCHANGED <<products, orders, nreq>>

\* productSchema.methods.incrementCartAdds: the analytics save, then the
\* response
IncrementCartAdds(r) ==
    /\ req[r].op = "Add" /\ req[r].pc = "analytics"
    /\ IF ProductValid(req[r].new)
       THEN /\ SaveProduct(req[r].p, req[r].old, req[r].new)
            /\ CartRespond(r, "Add", "OK", NoData)
       ELSE /\ CartRespond(r, "Add", "ServerError", NoData)
            /\ UNCHANGED products
    /\ UNCHANGED <<orders, nreq, cartStorage, cartObjects>>

\* ------------------------------------------------ PUT /api/cart/update
\* The validators, the cart and the line looked up; quantity 0 removes the
\* line at once, any other quantity goes on to await Product.findById
UpdateQuantityBegin(r, user, p, q) ==
    /\ CanBegin(r)
    /\ nreq' = nreq + 1
    /\ LET items == CartItems(user)
           itemIndex == FindIndex(items, p)
       IN  IF q \notin 0..UpdateMaxQuantity
           THEN /\ CartRespond(r, "UpdateQuantity", "ValidationFailed", NoData)
                /\ UNCHANGED cartObjects
           ELSE IF cartStorage[user] = 0 \/ itemIndex = 0
           THEN /\ CartRespond(r, "UpdateQuantity", "NotFound", NoData)
                /\ UNCHANGED cartObjects
           ELSE IF q = 0
           THEN /\ cartObjects' = [cartObjects EXCEPT
                                      ![cartStorage[user]] = Splice(items, itemIndex)]
                /\ CartRespond(r, "UpdateQuantity", "OK", NoData)
           ELSE /\ CartContinue(r, [op |-> "UpdateQuantity", pc |-> "write",
                                    user |-> user, userCart |-> cartStorage[user],
                                    itemIndex |-> itemIndex, p |-> p, q |-> q,
                                    product |-> products[p]])
                /\ UNCHANGED cartObjects
    /\ UNCHANGED <<products, orders, cartStorage>>

\* From the product to the response: the product checks, then
\* userCart.items[itemIndex].quantity = quantity on the cart object and at the
\* index the handler holds since before the await (a TypeError, answered 500,
\* when the array has no such index any more), and cartStorage.set
UpdateQuantityWrite(r) ==
    /\ req[r].op = "UpdateQuantity" /\ req[r].pc = "write"
    /\ LET product == req[r].product
           userCart == req[r].userCart
           itemIndex == req[r].itemIndex
       IN  IF ~product.exists
           THEN /\ CartRespond(r, "UpdateQuantity", "NotFound", NoData)
                /\ UNCHANGED <<cartStorage, cartObjects>>
           ELSE IF product.available < req[r].q
           THEN /\ CartRespond(r, "UpdateQuantity", "InsufficientStock", NoData)
                /\ UNCHANGED <<cartStorage, cartObjects>>
           ELSE IF itemIndex > Len(cartObjects[userCart])
           THEN /\ CartRespond(r, "UpdateQuantity", "ServerError", NoData)
                /\ UNCHANGED <<cartStorage, cartObjects>>
           ELSE /\ cartObjects' = [cartObjects EXCEPT
                                      ![userCart][itemIndex].quantity = req[r].q]
                /\ cartStorage' = [cartStorage EXCEPT ![req[r].user] = userCart]
                /\ CartRespond(r, "UpdateQuantity", "OK", NoData)
    /\ UNCHANGED <<products, orders, nreq>>

\* ------------------------------- DELETE /api/cart/remove/:productId
RemoveFromCart(r, user, p) ==
    /\ CanBegin(r)
    /\ nreq' = nreq + 1
    /\ LET items == CartItems(user) IN
       IF cartStorage[user] = 0
       THEN /\ CartRespond(r, "Remove", "NotFound", NoData)
            /\ UNCHANGED cartObjects
       ELSE /\ cartObjects' = [cartObjects EXCEPT
                                  ![cartStorage[user]] = FilterOut(items, p)]
            /\ IF Len(FilterOut(items, p)) = Len(items)
               THEN CartRespond(r, "Remove", "NotFound", NoData)
               ELSE CartRespond(r, "Remove", "OK", NoData)
    /\ UNCHANGED <<products, orders, cartStorage>>

\* ------------------------------------------- DELETE /api/cart/clear
\* cartStorage.set(userId, { items: [], updatedAt: new Date() })
ClearCart(r, user) ==
    /\ CanBegin(r)
    /\ Len(cartObjects) < MaxCartObjects
    /\ nreq' = nreq + 1
    /\ cartObjects' = Append(cartObjects, <<>>)
    /\ cartStorage' = [cartStorage EXCEPT ![user] = Len(cartObjects) + 1]
    /\ CartRespond(r, "Clear", "OK", NoData)
    /\ UNCHANGED <<products, orders>>

\* ------------------------------------------- POST /api/cart/validate
\* A Validate that takes the first item out of the stored cart as it starts
ValidateBeginShifting(r, user) ==
    /\ CanBegin(r)
    /\ nreq' = nreq + 1
    /\ LET items == CartItems(user) IN
       IF items = <<>>
       THEN /\ CartRespond(r, "Validate", "CartEmpty", NoData)
            /\ UNCHANGED cartObjects
       ELSE /\ CartContinue(r, [op |-> "Validate", pc |-> "check", items |-> items,
                                i |-> 1, product |-> products[items[1].productId],
                                validItems |-> <<>>, errors |-> <<>>])
            /\ cartObjects' = [cartObjects EXCEPT ![cartStorage[user]] = Tail(items)]
    /\ UNCHANGED <<products, orders, cartStorage>>

\* The cart looked up; an empty one is refused, otherwise the loop starts
\* with await Product.findById of the first item
ValidateBegin(r, user) ==
    /\ CanBegin(r)
    /\ nreq' = nreq + 1
    /\ LET items == CartItems(user) IN
       IF items = <<>>
       THEN CartRespond(r, "Validate", "CartEmpty", NoData)
       ELSE CartContinue(r, [op |-> "Validate", pc |-> "check", items |-> items,
                             i |-> 1, product |-> products[items[1].productId],
                             validItems |-> <<>>, errors |-> <<>>])
    /\ UNCHANGED <<products, orders, cartStorage, cartObjects>>

\* Why an item goes on the errors list ("none": it goes on validItems)
ItemError(product, cartItem) ==
    IF ~product.exists THEN "Product not found"
    ELSE IF product.status # "active" THEN "Product is no longer available"
    ELSE IF product.available < cartItem.quantity THEN "Only some available"
    ELSE "none"

\* validationErrors.length === 0
CanProceedToCheckout(errors) == Len(errors) = 0

\* One pass of the loop from the product it awaited: the item goes on one of
\* the two lists; then the next findById, or the response
ValidateItem(r) ==
    /\ req[r].op = "Validate" /\ req[r].pc = "check"
    /\ LET cartItem == req[r].items[req[r].i]
           product == req[r].product
           error == ItemError(product, cartItem)
           validItems == IF error = "none"
                         THEN Append(req[r].validItems,
                                     [productId |-> cartItem.productId,
                                      quantity |-> cartItem.quantity,
                                      price |-> product.salePrice])
                         ELSE req[r].validItems
           errors == IF error = "none" THEN req[r].errors
                     ELSE Append(req[r].errors,
                                 [productId |-> cartItem.productId, error |-> error])
       IN  IF req[r].i < Len(req[r].items)
           THEN CartContinue(r, [op |-> "Validate", pc |-> "check",
                                 items |-> req[r].items, i |-> req[r].i + 1,
                                 product |-> products[req[r].items[req[r].i + 1].productId],
                                 validItems |-> validItems, errors |-> errors])
           ELSE CartRespond(r, "Validate", "OK",
                            [present |-> TRUE, validItems |-> validItems,
                             errors |-> errors,
                             canProceedToCheckout |-> CanProceedToCheckout(errors)])
    /\ UNCHANGED <<products, orders, nreq, cartStorage, cartObjects>>

\* ============================================================ requests
Quiet == \A r \in Slots : ~InFlight(r)

\* What hist records when a request starts
Started(op, user, args) ==
    LET created == /\ Quiet /\ hist.racing = {}
                   /\ hist.op = "CreateOrder"
                   /\ last.op = "CreateOrder" /\ last.resp = "Created"
    IN  hist' = [op |-> op, user |-> user, args |-> args,
                 products0 |-> products, orders0 |-> orders,
                 racing |-> {[user |-> req[q].user, items |-> req[q].items] :
                                q \in {x \in Slots : req[x].op = "CreateOrder"
                                                      /\ req[x].pc = "reserve"}},
                 afterCreate |-> created,
                 createdBy |-> IF created THEN hist.user ELSE "none",
                 createProducts0 |-> IF created THEN hist.products0
                                     ELSE [p \in Products |-> NoProduct]]

\* Every handler's first piece, from the request's arrival to its first await
\* or its response
Begin(r, op, user, args) ==
    \/ /\ op = "CreateProduct"
       /\ \E p \in Products, q \in 0..MaxStock, price \in Prices :
             CreateProduct(r, p, user, q, price)
    \/ /\ op = "UpdateProduct"
       /\ \E p \in Products, body \in ProductBodies : UpdateProductFind(r, p, user, body)
    \/ /\ op = "DeleteProduct"
       /\ \E p \in Products : DeleteProductFind(r, p, user)
    \/ /\ op = "GetProduct"
       /\ \E p \in Products : GetProductFind(r, p)
    \/ /\ op = "CreateOrder"
       /\ CreateOrderBegin(r, user, args.items)
    \/ /\ op = "UpdateStatus"
       /\ UpdateStatusFind(r, args.o, user, args.status, args.trackingNumber)
    \/ /\ op = "Cancel"
       /\ CancelFind(r, args.o, user, args.reason)

\* Every later piece of a handler, from one await to the next
Step(r) ==
    \/ UpdateProductSave(r)
    \/ DeleteProductSave(r)
    \/ IncrementViews(r)
    \/ CreateOrderReserve(r)
    \/ CreateOrderFind(r)
    \/ CreateOrderInsert(r)
    \/ CreateOrderTimeline(r)
    \/ UpdateStatusTimeline(r)
    \/ UpdateStatusSave(r)
    \/ CancelTimeline(r)
    \/ CancelFindProduct(r)
    \/ CancelSaveProduct(r)

\* The requests clients send
Requests ==
    [op : {"CreateProduct", "UpdateProduct", "DeleteProduct"}, user : Sellers,
     args : {NoArgs}]
    \cup [op : {"GetProduct"}, user : {"none"}, args : {NoArgs}]
    \cup [op : {"CreateOrder"}, user : Customers,
          args : {[NoArgs EXCEPT !.items = items] : items \in ItemLists}]
    \cup [op : {"UpdateStatus"}, user : Users,
          args : {[NoArgs EXCEPT !.o = o, !.status = st, !.trackingNumber = t] :
                     o \in 1..MaxOrders, st \in UpdatableStatuses,
                     t \in TrackingNumbers}]
    \cup [op : {"Cancel"}, user : Users,
          args : {[NoArgs EXCEPT !.o = o, !.reason = reason] :
                     o \in 1..MaxOrders, reason \in Reasons}]

\* The server: requests arrive at any time and their handlers interleave at
\* every await
Next ==
    \E r \in Slots :
        \/ \E q \in Requests :
              /\ nreq < MaxRacing
              /\ Begin(r, q.op, q.user, q.args)
              /\ Started(q.op, q.user, q.args)
              /\ UNCHANGED cartVars
        \/ Step(r) /\ UNCHANGED <<hist, cartVars>>

Spec == Init /\ [][Next]_vars

\* The server under a client that waits for each response before it sends the
\* next request
SeqNext ==
    \E r \in Slots :
        \/ \E q \in Requests :
              /\ Quiet
              /\ Begin(r, q.op, q.user, q.args)
              /\ Started(q.op, q.user, q.args)
              /\ UNCHANGED cartVars
        \/ Step(r) /\ UNCHANGED <<hist, cartVars>>

SeqSpec == Init /\ [][SeqNext]_vars
\* ------------------------------------------- the order routes on their own
\* The requests to the three routes that write orders
OrderRequests == {q \in Requests : q.op \in {"CreateOrder", "UpdateStatus", "Cancel"}}

\* The first piece of these three handlers
OrderBegin(r, op, user, args) ==
    \/ /\ op = "CreateOrder"
       /\ CreateOrderBegin(r, user, args.items)
    \/ /\ op = "UpdateStatus"
       /\ UpdateStatusFind(r, args.o, user, args.status, args.trackingNumber)
    \/ /\ op = "Cancel"
       /\ CancelFind(r, args.o, user, args.reason)

\* Their later pieces
OrderStep(r) ==
    \/ CreateOrderReserve(r)
    \/ CreateOrderFind(r)
    \/ CreateOrderInsert(r)
    \/ CreateOrderTimeline(r)
    \/ UpdateStatusTimeline(r)
    \/ UpdateStatusSave(r)
    \/ CancelTimeline(r)
    \/ CancelFindProduct(r)
    \/ CancelSaveProduct(r)

\* The server when nothing but CreateOrder, UpdateStatus and Cancel requests
\* arrive, each after the response to the one before
OrdersNext ==
    \E r \in Slots :
        \/ \E q \in OrderRequests :
              /\ Quiet
              /\ OrderBegin(r, q.op, q.user, q.args)
              /\ Started(q.op, q.user, q.args)
              /\ UNCHANGED cartVars
        \/ OrderStep(r) /\ UNCHANGED <<hist, cartVars>>

OrdersSpec == Init /\ [][OrdersNext]_vars

\* ------------------------------- CreateOrder and Cancel requests overlapping
\* The sum of these numbers
RECURSIVE Sum(_)
Sum(numbers) == IF numbers = <<>> THEN 0 ELSE Head(numbers) + Sum(Tail(numbers))

\* The order a served CreateOrder of one line has left: inserted, then its
\* first timeline entry saved
PlacedOrder(user, p, quantity, catalogue) ==
    LET inserted ==
            NewOrder(user, <<[product |-> p, seller |-> catalogue[p].seller,
                              quantity |-> quantity, price |-> catalogue[p].salePrice,
                              total |-> catalogue[p].salePrice * quantity]>>)
    IN  OrderUpdated(inserted, inserted, AddTimelineEntry(inserted, "pending", user))

\* The orders earlier requests have placed for the first product, in order:
\* none, one by the first customer, or two of one unit each
EarlierOrders ==
    {<<>>}
    \cup {<<[user |-> "c1", quantity |-> q]>> : q \in 1..MaxQty}
    \cup {<<[user |-> "c1", quantity |-> 1], [user |-> c, quantity |-> 1]>> : c \in Customers}

\* The server after those orders: each has reserved its quantity of the first
\* product, no request runs
RaceInit ==
    /\ \E catalogue \in [Products -> {NoProduct} \cup
                           {ListedProduct(s, MaxStock, price) :
                               s \in Sellers, price \in Prices}],
          earlier \in EarlierOrders :
          /\ \A p \in Products :
                catalogue[p].exists => catalogue[p].seller = FirstSeller(p)
          /\ catalogue["p1"].exists
          /\ Sum([k \in 1..Len(earlier) |-> earlier[k].quantity]) <= MaxStock
          /\ Len(earlier) <= MaxOrders
          /\ orders = [k \in 1..Len(earlier) |->
                          PlacedOrder(earlier[k].user, "p1", earlier[k].quantity, catalogue)]
          /\ products =
                [catalogue EXCEPT !["p1"] =
                    ProductPreSave(
                        [@ EXCEPT !.reserved =
                            Sum([k \in 1..Len(earlier) |-> earlier[k].quantity])])]
    /\ req = [r \in Slots |-> Idle]
    /\ last = [op |-> "none", resp |-> "none"]
    /\ hist = NoRequest
    /\ nreq = 0
    /\ NoCarts

\* CreateOrder requests, and Cancel requests of customers
RaceRequests ==
    {q \in Requests : \/ q.op = "CreateOrder"
                      \/ q.op = "Cancel" /\ q.user \in Customers}

RaceBegin(r, op, user, args) ==
    \/ /\ op = "CreateOrder"
       /\ CreateOrderBegin(r, user, args.items)
    \/ /\ op = "Cancel"
       /\ CancelFind(r, args.o, user, args.reason)

RaceStep(r) ==
    \/ CreateOrderReserve(r)
    \/ CreateOrderFind(r)
    \/ CreateOrderInsert(r)
    \/ CreateOrderTimeline(r)
    \/ CancelTimeline(r)
    \/ CancelFindProduct(r)
    \/ CancelSaveProduct(r)

\* CreateOrder and Cancel requests arrive at any time and their handlers
\* interleave at every await
RaceNext ==
    \E r \in Slots :
        \/ \E q \in RaceRequests :
              /\ nreq < MaxRacing
              /\ RaceBegin(r, q.op, q.user, q.args)
              /\ Started(q.op, q.user, q.args)
              /\ UNCHANGED cartVars
        \/ RaceStep(r) /\ UNCHANGED <<hist, cartVars>>

RaceSpec == RaceInit /\ [][RaceNext]_vars

\* ------------------------------------------------------ the cart routes
\* A cart run starts on a catalogue and a cart that earlier requests have
\* left: the first product listed with any stock (or soft-deleted), the second
\* listed or not, and the customer's cart empty, or holding a line of the
\* first product, or one unit of each product
CartCatalogues ==
    {[p \in Products |->
         IF p = "p1" THEN first ELSE second] :
       first \in {ListedProduct("s1", a, price) : a \in 0..MaxCartStock, price \in Prices}
                 \cup {[ListedProduct("s1", MaxStock, price) EXCEPT !.status = "inactive"] :
                          price \in Prices},
       second \in {NoProduct} \cup {ListedProduct("s2", MaxStock, price) : price \in Prices}}

CartLines(catalogue) ==
    {<<>>}
    \cup {<<[productId |-> "p1", quantity |-> c]>> : c \in 1..LineLimit}
    \cup IF catalogue["p2"].exists
         THEN {<<[productId |-> "p1", quantity |-> 1], [productId |-> "p2", quantity |-> 1]>>,
               <<[productId |-> "p2", quantity |-> 1], [productId |-> "p1", quantity |-> 1]>>}
         ELSE {}

CartInit ==
    /\ products \in CartCatalogues
    /\ orders = <<>>
    /\ req = [r \in Slots |-> Idle]
    /\ last = [op |-> "none", resp |-> "none"]
    /\ hist = NoRequest
    /\ nreq = 0
    /\ \E items \in CartLines(products) :
          IF items = <<>>
          THEN cartStorage = [c \in Customers |-> 0] /\ cartObjects = <<>>
          ELSE /\ cartStorage = [c \in Customers |-> IF c \in Shoppers THEN 1 ELSE 0]
               /\ cartObjects = <<items>>
    /\ data = NoData
    /\ chist = NoCartRequest

\* The requests a customer sends to the cart routes
CartRequests ==
    [op : {"Add", "UpdateQuantity"}, user : Shoppers, p : Products, q : 0..MaxAsk]
    \cup [op : {"Remove"}, user : Shoppers, p : Products, q : {0}]
    \cup [op : {"Clear", "Validate"}, user : Shoppers, p : {"none"}, q : {0}]

\* Every cart handler's first piece
CartBegin(r, op, user, p, q) ==
    \/ op = "Add" /\ AddFind(r, user, p, q)
    \/ op = "UpdateQuantity" /\ UpdateQuantityBegin(r, user, p, q)
    \/ op = "Remove" /\ RemoveFromCart(r, user, p)
    \/ op = "Clear" /\ ClearCart(r, user)
    \/ op = "Validate" /\ ValidateBegin(r, user)

\* Every later piece of a cart handler
CartStep(r) ==
    \/ AddToCart(r)
    \/ IncrementCartAdds(r)
    \/ UpdateQuantityWrite(r)
    \/ ValidateItem(r)

\* What chist records when a cart request starts
CartStarted(op, user, p, q) ==
    chist' = [op |-> op, user |-> user, p |-> p, q |-> q,
              items0 |-> CartItems(user), products0 |-> products,
              prev |-> [op |-> chist.op, user |-> chist.user, resp |-> last.resp,
                        data |-> data]]

\* The cart routes under a customer who waits for each response before
\* sending the next request
CartNext ==
    \E r \in Slots :
        \/ \E c \in CartRequests :
              /\ Quiet
              /\ nreq < MaxCartRequests
              /\ CartBegin(r, c.op, c.user, c.p, c.q)
              /\ CartStarted(c.op, c.user, c.p, c.q)
              /\ UNCHANGED hist
        \/ CartStep(r) /\ UNCHANGED <<hist, chist>>

CartSpec == CartInit /\ [][CartNext]_vars

\* ------------------------------------- cart requests of one customer overlapping
\* A catalogue of three products
Shelf == Products \cup {"p3"}

\* Carts of one unit each of some of the three products, in any order
RECURSIVE CartsOf(_)
CartsOf(shelf) ==
    {<<>>} \cup UNION {{<<[productId |-> p, quantity |-> 1]>> \o rest :
                          rest \in CartsOf(shelf \ {p})} : p \in shelf}

\* Every product is listed with a full stock, the customer holds a cart of
\* at least two lines, no request runs
CartRaceInit ==
    /\ products \in [Shelf -> {ListedProduct("s1", MaxStock, price) : price \in Prices}]
    /\ orders = <<>>
    /\ req = [r \in Slots |-> Idle]
    /\ last = [op |-> "none", resp |-> "none"]
    /\ hist = NoRequest
    /\ nreq = 0
    /\ cartStorage = [c \in Customers |-> IF c \in Shoppers THEN 1 ELSE 0]
    /\ \E items \in CartsOf(Shelf) :
          /\ Len(items) >= 2
          /\ cartObjects = <<items>>
    /\ data = NoData
    /\ chist = NoCartRequest

\* The requests that change or remove one line
CartRaceRequests ==
    [op : {"UpdateQuantity"}, user : Shoppers, p : Shelf, q : 0..MaxQty]
    \cup [op : {"Remove"}, user : Shoppers, p : Shelf, q : {0}]

CartRaceBegin(r, op, user, p, q) ==
    \/ op = "UpdateQuantity" /\ UpdateQuantityBegin(r, user, p, q)
    \/ op = "Remove" /\ RemoveFromCart(r, user, p)

\* The customer's requests arrive at any time; an UpdateQuantity suspended on
\* its product lookup resumes after any number of them
CartRaceNext ==
    \E r \in Slots :
        \/ \E c \in CartRaceRequests :
              /\ nreq < MaxRacing
              /\ CartRaceBegin(r, c.op, c.user, c.p, c.q)
              /\ CartStarted(c.op, c.user, c.p, c.q)
              /\ UNCHANGED hist
        \/ UpdateQuantityWrite(r) /\ UNCHANGED <<hist, chist>>

CartRaceSpec == CartRaceInit /\ [][CartRaceNext]_vars

\* --------------------------------------- a customer who shops and then orders
\* The catalogue earlier requests have left: the first product listed with a
\* full stock and given any status by its seller, the second not listed, or
\* listed and active, or listed and discontinued
ShopCatalogues ==
    {[p \in Products |-> IF p = "p1" THEN first ELSE second] :
       first \in {[ListedProduct("s1", MaxStock, price) EXCEPT !.status = st] :
                     st \in ProductStatuses, price \in Prices},
       second \in {NoProduct}
                  \cup {[ListedProduct("s2", MaxStock, price) EXCEPT !.status = st] :
                           st \in {"active", "discontinued"}, price \in Prices}}

\* The carts the customer may hold: lines of products that are listed, each
\* product at most once
ShopCarts(catalogue) ==
    LET listed == {p \in Products : catalogue[p].exists}
        lines == [productId : listed, quantity : 1..MaxQty]
    IN  {<<>>} \cup {<<l>> : l \in lines}
        \cup {<<pair[1], pair[2]>> :
                 pair \in {x \in lines \X lines : x[1].productId # x[2].productId}}

ShopInit ==
    /\ products \in ShopCatalogues
    /\ orders = <<>>
    /\ req = [r \in Slots |-> Idle]
    /\ last = [op |-> "none", resp |-> "none"]
    /\ hist = NoRequest
    /\ nreq = 0
    /\ \E items \in ShopCarts(products) :
          IF items = <<>>
          THEN cartStorage = [c \in Customers |-> 0] /\ cartObjects = <<>>
          ELSE /\ cartStorage = [c \in Customers |-> IF c \in Shoppers THEN 1 ELSE 0]
               /\ cartObjects = <<items>>
    /\ data = NoData
    /\ chist = NoCartRequest

\* The customer's requests: the cart read, a product added, an order placed
ShopCartRequests ==
    [op : {"Read"}, user : Shoppers, p : {"none"}, q : {0}]
    \cup [op : {"Add"}, user : Shoppers, p : Products, q : 1..MaxQty]

ShopOrderRequests == {q \in Requests : q.op = "CreateOrder" /\ q.user \in Shoppers}

ShopCartBegin(r, op, user, p, q) ==
    \/ op = "Read" /\ ReadBegin(r, user)
    \/ op = "Add" /\ AddFind(r, user, p, q)

ShopCartStep(r) ==
    \/ ReadItem(r)
    \/ AddToCart(r)
    \/ IncrementCartAdds(r)

ShopOrderStep(r) ==
    \/ CreateOrderReserve(r)
    \/ CreateOrderFind(r)
    \/ CreateOrderInsert(r)
    \/ CreateOrderTimeline(r)

\* The customer waits for each response before sending the next request
ShopNext ==
    \E r \in Slots :
        \/ \E c \in ShopCartRequests :
              /\ Quiet
              /\ nreq < MaxShopping
              /\ ShopCartBegin(r, c.op, c.user, c.p, c.q)
              /\ CartStarted(c.op, c.user, c.p, c.q)
              /\ UNCHANGED hist
        \/ \E q \in ShopOrderRequests :
              /\ Quiet
              /\ nreq < MaxShopping
              /\ CreateOrderBegin(r, q.user, q.args.items)
              /\ Started(q.op, q.user, q.args)
              /\ UNCHANGED cartVars
        \/ ShopCartStep(r) /\ UNCHANGED <<hist, chist>>
        \/ ShopOrderStep(r) /\ UNCHANGED <<hist, cartVars>>

ShopSpec == ShopInit /\ [][ShopNext]_vars

\* ============================================================ properties
\* The order a served CreateOrder request of this customer for these lines
\* has left behind
Placed(o, user, items) ==
    /\ orders[o].customer = user
    /\ orders[o].timeline # <<>>
    /\ Len(orders[o].items) = Len(items)
    /\ \A k \in 1..Len(items) :
          /\ orders[o].items[k].product = items[k].product
          /\ orders[o].items[k].quantity = items[k].quantity

\* The request started last asked for the whole remaining stock of one product
\* while another CreateOrder request for that same whole stock was between its
\* stock check and its save
RacedForWholeStock(other) ==
    /\ hist.op = "CreateOrder"
    /\ Len(hist.args.items) = 1
    /\ other \in hist.racing
    /\ other.items = hist.args.items
    /\ hist.args.items[1].quantity =
          hist.products0[hist.args.items[1].product].available

\* C1: two concurrent CreateOrder requests, each for the whole remaining stock
\* of one product, never both succeed: once both are served, at most one of
\* them has placed an order
OnlyOneTakesWholeStock ==
    \A other \in hist.racing :
        (Quiet /\ RacedForWholeStock(other)) =>
            ~ \E o1, o2 \in 1..Len(orders) :
                  /\ o1 # o2
                  /\ o1 > Len(hist.orders0) /\ o2 > Len(hist.orders0)
                  /\ Placed(o1, other.user, other.items)
                  /\ Placed(o2, hist.user, hist.args.items)

CreateOrderFailures == {"ProductNotFound", "ProductUnavailable", "InsufficientStock"}

\* The request recorded in hist has been served, alone, and last is its response
Served(op) == Quiet /\ hist.op = op /\ hist.racing = {} /\ last.op = op

\* C3: a CreateOrder request that fails leaves reserved and available of every
\* product as they were before the request, and persists no order
FailedCreateOrderChangesNothing ==
    (Served("CreateOrder") /\ last.resp \in CreateOrderFailures) =>
        /\ \A p \in Products :
              /\ products[p].reserved = hist.products0[p].reserved
              /\ products[p].available = hist.products0[p].available
        /\ orders = hist.orders0

\* The step is the reserving save of a CreateOrder pass on product p
ReservesLine(r, p) ==
    /\ req[r].op = "CreateOrder" /\ req[r].pc = "reserve"
    /\ req'[r] # req[r]
    /\ req[r].items[req[r].i].product = p
    /\ products'[p].reserved = products[p].reserved + req[r].items[req[r].i].quantity

\* The step is the releasing save of a Cancel pass on product p
ReleasesLine(r, p) ==
    /\ req[r].op = "Cancel" /\ req[r].pc = "release"
    /\ req'[r] # req[r]
    /\ req[r].items[req[r].i].product = p
    /\ products'[p].reserved = products[p].reserved - req[r].items[req[r].i].quantity

\* C4: a product's reserved changes only when CreateOrder reserves a line of
\* it (plus the line's quantity) or Cancel releases one (minus the quantity)
ReservedChangesOnlyByOrders ==
    [][\A p \in Products :
          products'[p].reserved # products[p].reserved =>
              \E r \in Slots : ReservesLine(r, p) \/ ReleasesLine(r, p)]_vars

\* C5: every persisted order has a non-empty timeline whose last entry carries
\* the order's status
TimelineEndsInStatus ==
    \A o \in 1..Len(orders) :
        /\ orders[o].timeline # <<>>
        /\ orders[o].timeline[Len(orders[o].timeline)].status = orders[o].status

TerminalStatuses == {"cancelled", "delivered", "refunded"}

\* C6: once an order is cancelled, delivered or refunded, no step changes its
\* status or appends to its timeline
TerminalIsFinal ==
    [][\A o \in 1..Len(orders) :
          orders[o].status \in TerminalStatuses =>
              /\ orders'[o].status = orders[o].status
              /\ orders'[o].timeline = orders[o].timeline]_vars

\* C7: an order's status becomes cancelled only from pending or confirmed
CancelledOnlyFromCancellable ==
    [][\A o \in 1..Len(orders) :
          (orders'[o].status = "cancelled" /\ orders[o].status # "cancelled") =>
              orders[o].status \in CancellableStatuses]_vars

\* C8: Cancel by the order's customer succeeds when the order is pending or
\* confirmed; in any other status it fails with InvalidState and leaves the
\* order (timeline and cancellation record included) and all stock unchanged
CancelGatedOnStatus ==
    (/\ Served("Cancel")
     /\ hist.args.o \in 1..Len(hist.orders0)
     /\ hist.orders0[hist.args.o].customer = hist.user) =>
        IF hist.orders0[hist.args.o].status \in CancellableStatuses
        THEN /\ last.resp = "OK"
             /\ orders[hist.args.o].status = "cancelled"
        ELSE /\ last.resp = "InvalidState"
             /\ orders = hist.orders0
             /\ products = hist.products0

\* The request recorded in hist is a Cancel by the customer whose CreateOrder
\* was served just before it, of the order that CreateOrder placed
CancelsOrderJustPlaced ==
    /\ Served("Cancel")
    /\ hist.afterCreate
    /\ hist.user = hist.createdBy
    /\ hist.args.o = Len(hist.orders0)

\* C9: CreateOrder followed, with no operation in between, by Cancel of that
\* order by the same customer puts reserved and available of every ordered
\* product back to their values before the CreateOrder, and leaves the order
\* cancelled with the given reason as its cancellation reason
CancelRestoresStock ==
    CancelsOrderJustPlaced =>
        /\ last.resp = "OK"
        /\ \A k \in 1..Len(orders[hist.args.o].items) :
              LET p == orders[hist.args.o].items[k].product IN
              /\ products[p].reserved = hist.createProducts0[p].reserved
              /\ products[p].available = hist.createProducts0[p].available
        /\ orders[hist.args.o].status = "cancelled"
        /\ orders[hist.args.o].cancellation = hist.args.reason

\* C9 witness: such a Cancel has been served for an order that had reserved
\* stock, and the stock is back
CancelRestoresStockWitness ==
    /\ CancelsOrderJustPlaced
    /\ last.resp = "OK"
    /\ orders[hist.args.o].status = "cancelled"
    /\ \E k \in 1..Len(orders[hist.args.o].items) :
          LET p == orders[hist.args.o].items[k].product IN
          /\ hist.products0[p].reserved > hist.createProducts0[p].reserved
          /\ products[p].reserved = hist.createProducts0[p].reserved

\* The request recorded in hist is a served CreateOrder of one line, for a
\* quantity the product, active, had available
OrdersAvailableProduct ==
    /\ Quiet /\ hist.op = "CreateOrder" /\ hist.racing = {}
    /\ Len(hist.args.items) = 1
    /\ LET before == hist.products0[hist.args.items[1].product] IN
       /\ before.exists
       /\ before.status = "active"
       /\ before.available >= hist.args.items[1].quantity

TimelineAppendOnly ==
    [][\A o \in 1..Len(orders) :
          LET before == orders[o].timeline
              after == orders'[o].timeline
          IN  /\ Len(after) >= Len(before)
              /\ SubSeq(after, 1, Len(before)) = before
              /\ orders'[o].status # orders[o].status =>
                    /\ Len(after) = Len(before) + 1
                    /\ after[Len(after)].status = orders'[o].status]_vars

\* C11 witness: an UpdateStatus has been served that changed the status of an
\* order with a timeline, and the timeline is the old one plus one entry
TimelineAppendOnlyWitness ==
    /\ Served("UpdateStatus") /\ last.resp = "OK"
    /\ hist.orders0[hist.args.o].timeline # <<>>
    /\ orders[hist.args.o].status # hist.orders0[hist.args.o].status
    /\ orders[hist.args.o].timeline =
          Append(hist.orders0[hist.args.o].timeline,
                 [status |-> hist.args.status, updatedBy |-> hist.user])

\* The request recorded in hist is a served Cancel of an existing order by
\* somebody who is not its customer
CancelByStranger ==
    /\ Served("Cancel")
    /\ hist.args.o \in 1..Len(hist.orders0)
    /\ hist.orders0[hist.args.o].customer # hist.user

\* C12: Cancel by any user other than the order's customer (an admin or a
\* seller of its items included) fails with Forbidden and changes neither the
\* order nor any product's stock
CancelForbiddenForStranger ==
    CancelByStranger =>
        /\ last.resp = "Forbidden"
        /\ orders = hist.orders0
        /\ products = hist.products0

\* C12 witness: an admin or the seller of an item has asked to cancel a
\* pending order and was refused
CancelForbiddenForStrangerWitness ==
    /\ CancelByStranger
    /\ \/ UserType(hist.user) = "admin"
       \/ IsSellerOfItem(hist.orders0[hist.args.o], hist.user)
    /\ hist.orders0[hist.args.o].status = "pending"
    /\ last.resp = "Forbidden"
    /\ orders = hist.orders0

\* The request recorded in hist is a served UpdateStatus of an existing order
\* by somebody who is neither an admin nor a seller of one of its items
UpdateStatusByOutsider ==
    /\ Served("UpdateStatus")
    /\ hist.args.o \in 1..Len(hist.orders0)
    /\ UserType(hist.user) # "admin"
    /\ \A k \in 1..Len(hist.orders0[hist.args.o].items) :
          hist.orders0[hist.args.o].items[k].seller # hist.user

\* C13: UpdateStatus by an actor who is neither an admin nor the seller of an
\* item of the order fails with Forbidden and leaves the order's status,
\* timeline and shipping record unchanged; so it does for the order's customer
UpdateStatusForbiddenForOutsider ==
    UpdateStatusByOutsider =>
        /\ last.resp = "Forbidden"
        /\ orders[hist.args.o].status = hist.orders0[hist.args.o].status
        /\ orders[hist.args.o].timeline = hist.orders0[hist.args.o].timeline
        /\ orders[hist.args.o].shipping = hist.orders0[hist.args.o].shipping

\* C13 witness: the customer of an order has asked to change its status and
\* was refused
UpdateStatusForbiddenForOutsiderWitness ==
    /\ UpdateStatusByOutsider
    /\ hist.orders0[hist.args.o].customer = hist.user
    /\ last.resp = "Forbidden"
    /\ orders[hist.args.o] = hist.orders0[hist.args.o]

\* The cart request recorded in chist has been served and last is its response
CartServed(op) == Quiet /\ chist.op = op /\ last.op = op

\* The quantity of the line of product p in these items, 0 when it has none
LineQuantity(items, p) ==
    IF FindIndex(items, p) = 0 THEN 0 ELSE items[FindIndex(items, p)].quantity

\* C14: after any sequence of cart operations every cart entry has a quantity
\* between 1 and 10, and every successful Add or UpdateQuantity (to a quantity
\* above 0) leaves the entry of its product at a quantity no greater than the
\* product's available stock as the operation read it
CartQuantitiesBounded ==
    /\ \A c \in Customers :
          \A k \in 1..Len(CartItems(c)) : CartItems(c)[k].quantity \in 1..10
    /\ ((CartServed("Add") \/ (CartServed("UpdateQuantity") /\ chist.q > 0))
           /\ last.resp = "OK") =>
          /\ LineQuantity(CartItems(chist.user), chist.p) >= 1
          /\ LineQuantity(CartItems(chist.user), chist.p)
                <= chist.products0[chist.p].available

\* C14 witness: an Add has grown an existing line to the limit, which the
\* stock allowed
CartQuantitiesBoundedWitness ==
    /\ CartServed("Add") /\ last.resp = "OK"
    /\ LineQuantity(chist.items0, chist.p) >= 1
    /\ LineQuantity(CartItems(chist.user), chist.p) = 10
    /\ chist.products0[chist.p].available >= 10

\* The cart request recorded in chist is a served Add, of a quantity the route
\* accepts, of a product that was active
AddOfActiveProduct ==
    /\ CartServed("Add")
    /\ chist.q \in 1..AddMaxQuantity
    /\ chist.products0[chist.p].exists
    /\ chist.products0[chist.p].status = "active"

\* The Add recorded in chist succeeded and left its line at this quantity
AddSucceeded(quantity) ==
    /\ last.resp = "OK"
    /\ LineQuantity(CartItems(chist.user), chist.p) = quantity

\* The Add recorded in chist failed with this error and left the cart as it was
AddFailed(error) ==
    /\ last.resp = error
    /\ CartItems(chist.user) = chist.items0

\* C15 as stated: for an active product with available stock a and a cart line
\* at quantity c, an Add that brings the line to exactly a succeeds and an Add
\* that would bring it to a + 1 fails with InsufficientStock and leaves the
\* cart unchanged, for every a and c, a > 10 included
AddUpToAvailableAnyStock ==
    AddOfActiveProduct =>
        LET a == chist.products0[chist.p].available
            c == LineQuantity(chist.items0, chist.p)
        IN  /\ c + chist.q = a => AddSucceeded(a)
            /\ c + chist.q = a + 1 => AddFailed("InsufficientStock")

\* C15: for an active product with available stock a and a cart line at
\* quantity c, an Add that brings the line to exactly a succeeds when a is at
\* most 10 and fails with LimitExceeded, the cart unchanged, when a is above
\* 10; an Add that would bring the line to a + 1 fails with InsufficientStock
\* and leaves the cart unchanged, for every a and c
AddUpToAvailable ==
    AddOfActiveProduct =>
        LET a == chist.products0[chist.p].available
            c == LineQuantity(chist.items0, chist.p)
        IN  /\ (c + chist.q = a /\ a <= 10) => AddSucceeded(a)
            /\ (c + chist.q = a /\ a > 10) => AddFailed("LimitExceeded")
            /\ c + chist.q = a + 1 => AddFailed("InsufficientStock")

\* C15 witness: an Add has brought an existing line to exactly the available
\* stock
AddUpToAvailableWitness ==
    /\ AddOfActiveProduct
    /\ LineQuantity(chist.items0, chist.p) >= 1
    /\ LineQuantity(chist.items0, chist.p) + chist.q
          = chist.products0[chist.p].available
    /\ AddSucceeded(chist.products0[chist.p].available)

\* The Add recorded in chist would bring an existing line above 10, and the
\* product, active, has at least that much available
AddBeyondLimit ==
    /\ AddOfActiveProduct
    /\ LineQuantity(chist.items0, chist.p) >= 1
    /\ LineQuantity(chist.items0, chist.p) + chist.q > 10
    /\ chist.products0[chist.p].available
          >= LineQuantity(chist.items0, chist.p) + chist.q

\* C16: an Add that would bring an existing cart line above 10 fails with
\* LimitExceeded whenever the (active) product's available stock is at least
\* the resulting quantity, and leaves the line's quantity unchanged
AddBeyondLimitRefused ==
    AddBeyondLimit =>
        /\ last.resp = "LimitExceeded"
        /\ LineQuantity(CartItems(chist.user), chist.p)
              = LineQuantity(chist.items0, chist.p)

\* C16 witness: such an Add has been refused
AddBeyondLimitRefusedWitness ==
    /\ AddBeyondLimit
    /\ last.resp = "LimitExceeded"
    /\ CartItems(chist.user) = chist.items0

\* The items without the k-th
Without(items, k) ==
    [j \in 1..(Len(items) - 1) |-> IF j < k THEN items[j] ELSE items[j + 1]]

\* C17: UpdateQuantity(customer, product, q), q a quantity the route accepts:
\* with no entry for the product it fails with NotFound, for q = 0 too; with
\* an entry, q = 0 removes the entry, q > 0 within the product's current
\* available sets the entry's quantity to q, and q above the current
\* available fails with InsufficientStock and leaves the entry unchanged
UpdateQuantityByCases ==
    (CartServed("UpdateQuantity") /\ chist.q \in 0..UpdateMaxQuantity) =>
        LET k == FindIndex(chist.items0, chist.p) IN
        IF k = 0
        THEN last.resp = "NotFound" /\ CartItems(chist.user) = chist.items0
        ELSE IF chist.q = 0
        THEN last.resp = "OK" /\ CartItems(chist.user) = Without(chist.items0, k)
        ELSE IF chist.q <= chist.products0[chist.p].available
        THEN /\ last.resp = "OK"
             /\ CartItems(chist.user) = [chist.items0 EXCEPT ![k].quantity = chist.q]
        ELSE /\ last.resp = "InsufficientStock"
             /\ CartItems(chist.user) = chist.items0

\* C17 witness: an UpdateQuantity has raised the second line of a cart to a
\* quantity the stock allowed
UpdateQuantityByCasesWitness ==
    /\ CartServed("UpdateQuantity") /\ last.resp = "OK"
    /\ FindIndex(chist.items0, chist.p) = 2
    /\ chist.q > chist.items0[2].quantity
    /\ CartItems(chist.user) = [chist.items0 EXCEPT ![2].quantity = chist.q]

\* C18: Remove(customer, product) fails with NotFound and leaves the cart's
\* entries unchanged when the cart has no entry for the product; when it has
\* one, it removes exactly that entry and keeps all others
RemoveByCases ==
    CartServed("Remove") =>
        LET k == FindIndex(chist.items0, chist.p) IN
        IF k = 0
        THEN last.resp = "NotFound" /\ CartItems(chist.user) = chist.items0
        ELSE last.resp = "OK" /\ CartItems(chist.user) = Without(chist.items0, k)

\* C18 witness: a Remove has taken one line out of a cart of two and kept the
\* other
RemoveByCasesWitness ==
    /\ CartServed("Remove") /\ last.resp = "OK"
    /\ Len(chist.items0) = 2
    /\ Len(CartItems(chist.user)) = 1
    /\ CartItems(chist.user)[1].productId # chist.p

\* The product ids of these entries, in order
ProductIds(entries) == [k \in 1..Len(entries) |-> entries[k].productId]

\* An entry belongs on the errors list: its product is missing, not active, or
\* has less available than the entry's quantity
Failing(entry) ==
    LET product == chist.products0[entry.productId] IN
    \/ ~product.exists
    \/ product.status # "active"
    \/ product.available < entry.quantity

Passing(entry) == ~Failing(entry)

\* C19: Validate(customer) returns, for every cart state, lists validItems and
\* errors that partition the cart's entries (errors: the entries whose product
\* is missing, not active or short of stock; validItems: all others), with
\* canProceedToCheckout true if and only if errors is empty
ValidatePartitionsCart ==
    CartServed("Validate") =>
        /\ data.present
        /\ ProductIds(data.errors) = ProductIds(SelectSeq(chist.items0, Failing))
        /\ ProductIds(data.validItems) = ProductIds(SelectSeq(chist.items0, Passing))
        /\ data.canProceedToCheckout <=> (data.errors = <<>>)

\* C20: Validate changes neither the cart nor any product, and two consecutive
\* Validate calls by the same customer return identical validItems, errors
\* and canProceedToCheckout
ValidateIsIdempotent ==
    CartServed("Validate") =>
        /\ CartItems(chist.user) = chist.items0
        /\ products = chist.products0
        /\ (chist.prev.op = "Validate" /\ chist.prev.user = chist.user) =>
              /\ last.resp = chist.prev.resp
              /\ data = chist.prev.data

\* C20 witness: two Validate calls in a row have returned the same lists, an
\* entry on each
ValidateIsIdempotentWitness ==
    /\ CartServed("Validate")
    /\ chist.prev.op = "Validate" /\ chist.prev.user = chist.user
    /\ data.present
    /\ data.errors # <<>> /\ data.validItems # <<>>
    /\ data = chist.prev.data
    /\ CartItems(chist.user) = chist.items0

\* C21: every persisted order has total = subtotal + shippingCost + tax -
\* discount and subtotal = the sum of its items' totals, each item's total
\* being its snapshot price times its quantity
OrderTotalsAddUp ==
    \A o \in 1..Len(orders) :
        LET order == orders[o] IN
        /\ order.total = order.subtotal + order.shippingCost + order.tax - order.discount
        /\ order.subtotal = Sum([k \in 1..Len(order.items) |-> order.items[k].total])
        /\ \A k \in 1..Len(order.items) :
              order.items[k].total = order.items[k].price * order.items[k].quantity

\* C21 witness: an order of two lines of different quantities is persisted
\* with tax and a total above its subtotal, and its status has moved on since
OrderTotalsAddUpWitness ==
    \E o \in 1..Len(orders) :
        /\ Len(orders[o].items) = 2
        /\ orders[o].items[1].quantity # orders[o].items[2].quantity
        /\ orders[o].tax > 0
        /\ orders[o].total = orders[o].subtotal + orders[o].shippingCost + orders[o].tax
        /\ orders[o].status # "pending"

\* C23: UpdateStatus to shipped with a tracking number sets
\* shipping.trackingNumber to it and sets shipping.shippedAt; UpdateStatus to
\* delivered (after it, too) sets shipping.deliveredAt and leaves
\* trackingNumber and shippedAt as they were; UpdateStatus to any status other
\* than shipped leaves trackingNumber as it was
ShippingStamps ==
    (Served("UpdateStatus") /\ last.resp = "OK") =>
        LET before == hist.orders0[hist.args.o].shipping
            after == orders[hist.args.o].shipping
        IN  /\ (hist.args.status = "shipped" /\ hist.args.trackingNumber # "none") =>
                  /\ after.trackingNumber = hist.args.trackingNumber
                  /\ after.shippedAt
            /\ hist.args.status = "delivered" =>
                  /\ after.deliveredAt
                  /\ after.trackingNumber = before.trackingNumber
                  /\ after.shippedAt = before.shippedAt
            /\ hist.args.status # "shipped" =>
                  after.trackingNumber = before.trackingNumber

\* C23 witness: an order shipped under a tracking number has been set to
\* delivered by a request that carried a tracking number too, and has kept
\* its stamps
ShippingStampsWitness ==
    /\ Served("UpdateStatus") /\ last.resp = "OK"
    /\ hist.args.status = "delivered"
    /\ hist.args.trackingNumber = "TRK123"
    /\ hist.orders0[hist.args.o].status = "shipped"
    /\ hist.orders0[hist.args.o].shipping =
          [trackingNumber |-> "TRK123", shippedAt |-> TRUE, deliveredAt |-> FALSE]
    /\ orders[hist.args.o].shipping =
          [trackingNumber |-> "TRK123", shippedAt |-> TRUE, deliveredAt |-> TRUE]

\* The quantities these lines ask of product p, added up
QuantityOf(items, p) ==
    Sum([k \in 1..Len(items) |-> IF items[k].product = p THEN items[k].quantity ELSE 0])

\* The lines that name product p
LinesOf(items, p) == {k \in 1..Len(items) : items[k].product = p}

\* C29: when one CreateOrder request lists the same product in several items,
\* each item is checked against the available stock the preceding items have
\* left: the request succeeds only if the quantities add up to no more than
\* the product's available before the request, and on success reserved has
\* grown by exactly their sum; a request that lists nothing but that product,
\* active, succeeds when they add up to no more than its available and fails
\* with InsufficientStock when they add up to more
RepeatedProductChecksRunningStock ==
    \A p \in Products :
        (Served("CreateOrder") /\ Cardinality(LinesOf(hist.args.items, p)) > 1) =>
            LET sum == QuantityOf(hist.args.items, p)
                before == hist.products0[p]
            IN  /\ last.resp = "Created" =>
                      /\ sum <= before.available
                      /\ products[p].reserved = before.reserved + sum
                /\ (/\ LinesOf(hist.args.items, p) = 1..Len(hist.args.items)
                    /\ before.exists /\ before.status = "active") =>
                      IF sum <= before.available
                      THEN last.resp = "Created"
                      ELSE last.resp = "InsufficientStock"

\* C29 witness: a request of two lines of one product, each within the
\* available stock and together exactly it, has succeeded and reserved both
RepeatedProductChecksRunningStockWitness ==
    \E p \in Products :
        /\ Served("CreateOrder") /\ last.resp = "Created"
        /\ Len(hist.args.items) = 2
        /\ hist.args.items[1].product = p /\ hist.args.items[2].product = p
        /\ hist.products0[p].available = QuantityOf(hist.args.items, p)
        /\ products[p].reserved = hist.products0[p].reserved + 2
        /\ products[p].available = 0

\* The quantity of product p that the orders not cancelled hold
RECURSIVE HeldByOrders(_, _)
HeldByOrders(placed, p) ==
    IF placed = <<>> THEN 0
    ELSE (IF Head(placed).status # "cancelled" THEN QuantityOf(Head(placed).items, p)
          ELSE 0)
         + HeldByOrders(Tail(placed), p)

\* C28: with no request in flight, after any sequence of CreateOrder
\* (successful or failed), Cancel and UpdateStatus (to cancelled included)
\* requests, each product's reserved equals the sum of the quantities of its
\* lines over all persisted orders that are not cancelled
ReservedIsHeldByOrders ==
    Quiet => \A p \in Products :
                products[p].exists => products[p].reserved = HeldByOrders(orders, p)

\* C26: under any interleaving of CreateOrder and Cancel requests of any
\* customers, every product has reserved <= quantity, and available >= 0
ReservedWithinQuantity ==
    \A p \in Products :
        products[p].exists =>
            /\ products[p].reserved <= products[p].quantity
            /\ products[p].available >= 0

\* C26 witness: two CreateOrder requests that overlapped have both been
\* served, the later one having found the earlier between its stock check and
\* its save, and the product they raced for has reserved = quantity
ReservedWithinQuantityWitness ==
    /\ Quiet /\ hist.op = "CreateOrder" /\ hist.racing # {}
    /\ last.resp = "Created"
    /\ \E p \in Products :
          /\ products[p].exists
          /\ hist.args.items[1].product = p
          /\ \E other \in hist.racing : other.items[1].product = p
          /\ products[p].reserved = products[p].quantity

\* The request started last is a Cancel of an order that two Cancel requests
\* have cancelled: both read it before either saved it, and both are served
CancelledTwice ==
    /\ Quiet /\ hist.op = "Cancel"
    /\ hist.args.o \in 1..Len(orders)
    /\ Cardinality({k \in 1..Len(orders[hist.args.o].timeline) :
                       orders[hist.args.o].timeline[k].status = "cancelled"}) = 2

\* C27: when two Cancel requests for the same order run concurrently (both
\* read the order before either saves), each product's reserved decreases in
\* total by at most the quantity that order had reserved, and no product's
\* reserved ever becomes negative
ReleasedAtMostOnce ==
    /\ \A p \in Products : products[p].reserved >= 0
    /\ CancelledTwice =>
          \A p \in Products :
              hist.products0[p].reserved - products[p].reserved
                 <= QuantityOf(orders[hist.args.o].items, p)

\* The step is the write of an UpdateQuantity request that answers success
UpdateQuantitySucceeds(r) ==
    /\ req[r].op = "UpdateQuantity" /\ req[r].pc = "write"
    /\ req'[r] = Idle
    /\ last' = [op |-> "UpdateQuantity", resp |-> "OK"]

\* The customer's cart items after the step
CartItemsAfter(user) ==
    IF cartStorage'[user] = 0 THEN <<>> ELSE cartObjects'[cartStorage'[user]]

\* C30: a successful UpdateQuantity(customer, p, q) with q > 0 changes only
\* the quantity of the entry for product p: every other entry of the cart
\* keeps its product and quantity, also when a Remove or an UpdateQuantity
\* with quantity 0 for a different product of the same cart has completed
\* while the request was suspended on its product lookup (the entry for p is
\* then still in the cart when the request resumes)
UpdateQuantityKeepsOtherLines ==
    [][\A r \in Slots :
          (UpdateQuantitySucceeds(r)
             /\ FindIndex(CartItems(req[r].user), req[r].p) > 0) =>
              LET before == CartItems(req[r].user)
                  after == CartItemsAfter(req[r].user)
              IN  /\ Len(after) = Len(before)
                  /\ \A k \in 1..Len(before) :
                        /\ after[k].productId = before[k].productId
                        /\ before[k].productId # req[r].p =>
                              after[k].quantity = before[k].quantity]_vars

\* C24: after a successful CreateOrder by a customer, that customer's cart
\* contains no entries
CheckoutClearsCart ==
    (Served("CreateOrder") /\ last.resp = "Created") => CartItems(hist.user) = <<>>

\* The lines of a cart summary and the lines of an order name the same
\* products, in the same quantities, at the same prices
SameLines(cartItems, orderItems) ==
    /\ Len(cartItems) = Len(orderItems)
    /\ \A k \in 1..Len(cartItems) :
          /\ cartItems[k].id = orderItems[k].product
          /\ cartItems[k].quantity = orderItems[k].quantity
          /\ cartItems[k].price = orderItems[k].price

\* The order just created has the lines the cart summary read before it showed
OrderedWhatCartShowed ==
    /\ Served("CreateOrder") /\ last.resp = "Created"
    /\ chist.op = "Read" /\ data.present
    /\ SameLines(data.items, orders[Len(orders)].items)

NotActive(k) ==
    /\ hist.products0[hist.args.items[k].product].exists
    /\ hist.products0[hist.args.items[k].product].status # "active"

\* The lines before line k of that request each pass the three checks of the
\* item loop: the product is listed, active, and has the line's quantity
\* available after the lines before it
PassUpTo(k) ==
    \A j \in 1..(k - 1) :
        LET product == hist.products0[hist.args.items[j].product] IN
        /\ product.exists
        /\ product.status = "active"
        /\ product.available
              - QuantityOf(SubSeq(hist.args.items, 1, j - 1), hist.args.items[j].product)
              >= hist.args.items[j].quantity

\* C25: CreateOrder succeeds only if every requested product is active: an
\* item whose product is pending_approval, inactive, out_of_stock or
\* discontinued makes the request fail (with ProductUnavailable, as the error
\* of the first item that fails a check) and reserves no stock for that
\* product; and a cart Add never creates or increases an entry for a product
\* that is not active
OnlyActiveIsPurchasable ==
    /\ Served("CreateOrder") =>
          /\ last.resp = "Created" =>
                \A k \in 1..Len(hist.args.items) :
                    /\ hist.products0[hist.args.items[k].product].exists
                    /\ hist.products0[hist.args.items[k].product].status = "active"
          /\ \A k \in 1..Len(hist.args.items) :
                NotActive(k) =>
                    /\ last.resp # "Created"
                    /\ orders = hist.orders0
                    /\ products[hist.args.items[k].product].reserved
                          = hist.products0[hist.args.items[k].product].reserved
                    /\ PassUpTo(k) => last.resp = "ProductUnavailable"
    /\ (/\ CartServed("Add")
        /\ chist.products0[chist.p].exists
        /\ chist.products0[chist.p].status # "active") =>
          /\ last.resp \in {"Unavailable", "ValidationFailed"}
          /\ CartItems(chist.user) = chist.items0

\* C25 witness: a request of two lines, the first of an active product with
\* enough stock, the second of a discontinued one, has failed with
\* ProductUnavailable and has reserved nothing of the second product
OnlyActiveIsPurchasableWitness ==
    /\ Served("CreateOrder")
    /\ Len(hist.args.items) = 2
    /\ NotActive(2) /\ PassUpTo(2)
    /\ hist.products0[hist.args.items[2].product].status = "discontinued"
    /\ hist.products0[hist.args.items[2].product].available
          >= hist.args.items[2].quantity
    /\ last.resp = "ProductUnavailable"
    /\ products[hist.args.items[2].product].reserved = 0
====
